---- MODULE Spec2Model ----
(***************************************************************************)
(* CO2 emissions dashboard: the data processor (src/src/data_processing.py) *)
(* the aggregations of the chart builder (src/src/visualizations.py) and   *)
(* the dashboard's filter callback (src/dashboard/app.py).                 *)
(*                                                                         *)
(* A table is a record [columns, dtypes, rows]: the column names in order, *)
(* the dtype of each column ("object", "int64", "int32", "float64",        *)
(* "datetime") and the rows,                                               *)
(* each a function from column name to cell.  A cell is a tagged record:   *)
(* NULL (NaN / NaT / None), a string (a sequence of chunks, " " being a    *)
(* blank), a number (an exact fraction), an infinity or a parsed date.     *)
(* Floating point rounding is not modelled: numbers are exact fractions.   *)
(***************************************************************************)
EXTENDS Integers, Sequences, FiniteSets, TLC

VARIABLES
    file,            \* the input CSV at data_path (never written)
    raw_data,        \* CO2DataProcessor.raw_data
    processed_data,  \* CO2DataProcessor.processed_data
    derived,         \* how many times add_derived_metrics has stored a table
    saved,           \* the CSV save_processed_data wrote
    viz_data,        \* CO2Visualizer.data
    dashboard,       \* the globals of the dashboard module: df and top_10_countries
    ret              \* the last call: its name, arguments and what it returned or raised

vars == <<file, raw_data, processed_data, derived, saved, viz_data, dashboard, ret>>

(***************************************************************************)
(* Bounds of the model.                                                    *)
(***************************************************************************)
MaxRows == 3

MaxN == 2

MaxDerive == 2

(***************************************************************************)
(* Cells.                                                                  *)
(***************************************************************************)
None == [t |-> "None"]

NULL == [t |-> "null"]

Str(s) == [t |-> "str", s |-> s]

Inf(sign) == [t |-> "inf", sign |-> sign]

Date(d, m, y) == [t |-> "date", day |-> d, month |-> m, year |-> y]

Abs(x) == IF x < 0 THEN -x ELSE x

RECURSIVE GCD(_, _)
GCD(a, b) == IF b = 0 THEN a ELSE GCD(b, a % b)

\* the fraction n/d in lowest terms with a positive denominator (d # 0)
Frac(n, d) ==
    LET g == GCD(Abs(n), Abs(d))
        s == IF d < 0 THEN -1 ELSE 1
    IN  [t |-> "num", n |-> (s * n) \div g, d |-> (s * d) \div g]

Num(n) == [t |-> "num", n |-> n, d |-> 1]

isnull(c) == c.t = "null"

\* float addition, as numpy does it: NaN absorbs, inf + -inf is NaN
Add(a, b) ==
    IF isnull(a) \/ isnull(b) THEN NULL
    ELSE IF a.t = "inf" /\ b.t = "inf"
         THEN (IF a.sign = b.sign THEN a ELSE NULL)
    ELSE IF a.t = "inf" THEN a
    ELSE IF b.t = "inf" THEN b
    ELSE Frac(a.n * b.d + b.n * a.d, a.d * b.d)

Neg(a) ==
    IF isnull(a) THEN NULL
    ELSE IF a.t = "inf" THEN Inf(-a.sign)
    ELSE Frac(-a.n, a.d)

Sub(a, b) == Add(a, Neg(b))

Sign(a) ==
    IF a.t = "inf" THEN a.sign
    ELSE IF a.n > 0 THEN 1 ELSE IF a.n < 0 THEN -1 ELSE 0

\* float multiplication: NaN absorbs, 0 * inf is NaN
Mul(a, b) ==
    IF isnull(a) \/ isnull(b) THEN NULL
    ELSE IF a.t = "inf" \/ b.t = "inf"
         THEN (IF Sign(a) * Sign(b) = 0 THEN NULL ELSE Inf(Sign(a) * Sign(b)))
    ELSE Frac(a.n * b.n, a.d * b.d)

\* float division of two columns: x/0 is +-inf, 0/0 is NaN, nothing raises
Div(a, b) ==
    IF isnull(a) \/ isnull(b) THEN NULL
    ELSE IF a.t = "inf" /\ b.t = "inf" THEN NULL
    ELSE IF a.t = "inf" THEN Inf(a.sign * (IF Sign(b) < 0 THEN -1 ELSE 1))
    ELSE IF b.t = "inf" THEN Num(0)
    ELSE IF b.n = 0 THEN (IF a.n = 0 THEN NULL ELSE Inf(Sign(a)))
    ELSE Frac(a.n * b.d, a.d * b.n)

\* a < b on non-null floats
Less(a, b) ==
    IF a.t = "inf" THEN a.sign = -1 /\ ~(b.t = "inf" /\ b.sign = -1)
    ELSE IF b.t = "inf" THEN b.sign = 1
    ELSE a.n * b.d < b.n * a.d

(***************************************************************************)
(* Text.  A string is a sequence of chunks: words, blanks (W(" ")) and     *)
(* runs of digits.                                                         *)
(***************************************************************************)
\* a chunk of text: a word or a blank
W(x) == [c |-> x]

\* a chunk of text: the digits of the integer n
D(n) == [digits |-> n]

\* the order of the chunks as Python compares the strings they stand for
ChunkOrd ==
    [c \in {" ", "A", "B", "Energy", "Transport"} |->
        CASE c = " " -> 0 [] c = "A" -> 1 [] c = "B" -> 2 [] c = "Energy" -> 3
          [] c = "Transport" -> 4]

RECURSIVE SeqLess(_, _)
SeqLess(a, b) ==
    IF b = <<>> THEN FALSE
    ELSE IF a = <<>> THEN TRUE
    ELSE IF Head(a) # Head(b) THEN ChunkOrd[Head(a).c] < ChunkOrd[Head(b).c]
    ELSE SeqLess(Tail(a), Tail(b))

RECURSIVE lstrip(_)
lstrip(s) == IF s # <<>> /\ Head(s) = W(" ") THEN lstrip(Tail(s)) ELSE s

RECURSIVE rstrip(_)
rstrip(s) ==
    IF s # <<>> /\ s[Len(s)] = W(" ") THEN rstrip(SubSeq(s, 1, Len(s) - 1)) ELSE s

\* str.strip of one cell of an object column: a non-string stays NaN
strip(c) == IF c.t = "str" THEN Str(lstrip(rstrip(c.s))) ELSE NULL

(***************************************************************************)
(* Tables.                                                                 *)
(***************************************************************************)
Table(columns, dtypes, rows) == [t |-> "table", columns |-> columns, dtypes |-> dtypes, rows |-> rows]

Raise(exc) == [t |-> "error", exc |-> exc]

\* a returned value that is neither a table nor an exception
Ok(v) == [t |-> "ok", v |-> v]

Range(s) == {s[i] : i \in DOMAIN s}

\* df[col] = f(row): replaces the column in place, or appends it as the last column
SetColumn(df, col, kind, F(_)) ==
    Table(IF col \in Range(df.columns) THEN df.columns ELSE Append(df.columns, col),
          [c \in DOMAIN df.dtypes \cup {col} |-> IF c = col THEN kind ELSE df.dtypes[c]],
          [i \in DOMAIN df.rows |->
              [c \in DOMAIN df.rows[i] \cup {col} |->
                  IF c = col THEN F(df.rows[i]) ELSE df.rows[i][c]]])

(***************************************************************************)
(* load_data: pd.read_csv of the input file.                               *)
(***************************************************************************)
Header == <<"country", "sector", "date", "value">>

\* fields read_csv reads as NaN
na_values == {<<>>, <<W("NA")>>}

\* a chunk of text: the decimal notation of the float n/d ("2020.0" for 2020)
Dec(n, d) == [decimal |-> <<n, d>>]

\* text the parser reads as a number: digits, a decimal notation, inf
IsNumericText(s) ==
    /\ Len(s) = 1
    /\ \/ "digits" \in DOMAIN s[1]
       \/ "decimal" \in DOMAIN s[1]
       \/ s[1] \in {W("inf"), W("-inf")}

\* the number a numeric text stands for
ParseNumber(s) ==
    IF "digits" \in DOMAIN s[1] THEN Num(s[1].digits)
    ELSE IF "decimal" \in DOMAIN s[1] THEN Frac(s[1].decimal[1], s[1].decimal[2])
    ELSE Inf(IF s[1] = W("inf") THEN 1 ELSE -1)

\* the dtype of a column of numbers: int64 when every field is written as an
\* integer, float64 when a field is NaN, a decimal or inf
NumberDtype(texts) ==
    IF \A i \in DOMAIN texts : Len(texts[i]) = 1 /\ "digits" \in DOMAIN texts[i][1]
    THEN "int64" ELSE "float64"

\* read_csv infers a column as numeric when every field that is not NaN is a
\* number (an all-NaN column is float64); a column of a file without rows is object
InferNumeric(lines, c) ==
    /\ lines # <<>>
    /\ \A i \in DOMAIN lines : lines[i][c] \in na_values \/ IsNumericText(lines[i][c])

\* one field of a column that is numeric or not
ReadCell(numeric, s) ==
    IF s \in na_values THEN NULL
    ELSE IF numeric THEN ParseNumber(s)
    ELSE Str(s)

\* the exception open() or the parser raises on a path that holds no table: no
\* file, a file that may not be read, a file without a byte, a line with more
\* fields than the lines before it
read_error ==
    [t \in {"None", "missing", "unreadable", "empty", "ragged"} |->
        CASE t \in {"None", "missing"} -> "FileNotFoundError"
          [] t = "unreadable" -> "PermissionError"
          [] t = "empty" -> "EmptyDataError"
          [] t = "ragged" -> "ParserError"]

\* a read_csv that gives a table without rows where the file cannot be read
read_csv_or_empty(f) ==
    IF f.t # "csv" THEN Table(Header, [c \in Range(Header) |-> "object"], <<>>)
    ELSE LET numeric == [c \in Range(f.header) |-> InferNumeric(f.lines, c)]
         IN  Table(f.header,
                   [c \in Range(f.header) |->
                       IF numeric[c] THEN NumberDtype([i \in DOMAIN f.lines |-> f.lines[i][c]])
                       ELSE "object"],
                   [i \in DOMAIN f.lines |->
                       [c \in Range(f.header) |-> ReadCell(numeric[c], f.lines[i][c])]])

read_csv(f) ==
    IF f.t # "csv" THEN Raise(read_error[f.t])
    ELSE LET numeric == [c \in Range(f.header) |-> InferNumeric(f.lines, c)]
         IN  Table(f.header,
                   [c \in Range(f.header) |->
                       IF numeric[c] THEN NumberDtype([i \in DOMAIN f.lines |-> f.lines[i][c]])
                       ELSE "object"],
                   [i \in DOMAIN f.lines |->
                       [c \in Range(f.header) |-> ReadCell(numeric[c], f.lines[i][c])]])

(***************************************************************************)
(* clean_data.                                                             *)
(***************************************************************************)
IsLeap(y) == (y % 4 = 0 /\ y % 100 # 0) \/ y % 400 = 0

DaysIn(m, y) ==
    IF m = 2 THEN (IF IsLeap(y) THEN 29 ELSE 28)
    ELSE IF m \in {4, 6, 9, 11} THEN 30 ELSE 31

\* strptime with '%d/%m/%Y': day/month/year, a real calendar date
ParsesAsDate(s) ==
    /\ Len(s) = 5
    /\ s[2] = W("/") /\ s[4] = W("/")
    /\ \A i \in {1, 3, 5} : "digits" \in DOMAIN s[i]
    /\ s[5].digits \in 1678..2261
    /\ s[3].digits \in 1..12
    /\ s[1].digits \in 1..DaysIn(s[3].digits, s[5].digits)

\* pd.to_datetime(..., format='%d/%m/%Y', errors='coerce') of one cell
to_datetime(c) ==
    IF c.t = "date" THEN c
    ELSE IF c.t = "str" /\ ParsesAsDate(c.s)
         THEN Date(c.s[1].digits, c.s[3].digits, c.s[5].digits)
    ELSE NULL

\* pd.to_numeric(..., errors='coerce') of one cell
to_numeric(c) ==
    IF c.t \in {"num", "inf"} THEN c
    ELSE IF c.t = "str" /\ IsNumericText(c.s) THEN ParseNumber(c.s)
    ELSE NULL

\* the dtype to_numeric gives the column col: a numeric column keeps its dtype; an
\* object column becomes int64 when every cell is an integer and float64 when a
\* cell is coerced to NaN or is not an integer
to_numeric_dtype(df, col) ==
    IF df.dtypes[col] \in {"int64", "int32", "float64"} THEN df.dtypes[col]
    ELSE IF \A i \in DOMAIN df.rows :
                LET c == to_numeric(df.rows[i][col]) IN c.t = "num" /\ c.d = 1
         THEN "int64" ELSE "float64"

\* the dtype of .dt.year and .dt.month of the datetime column col: int32, and
\* float64 when the column holds a NaT
dt_dtype(df, col) ==
    IF \E i \in DOMAIN df.rows : isnull(df.rows[i][col]) THEN "float64" ELSE "int32"

\* one cell of .dt.year: the year, NaN for NaT (the column's dtype is dt_dtype)
dt_year(c) == IF c.t = "date" THEN Num(c.year) ELSE NULL

\* one cell of .dt.month: the month, NaN for NaT (the column's dtype is dt_dtype)
dt_month(c) == IF c.t = "date" THEN Num(c.month) ELSE NULL

\* a dropna that forgets the date column
dropna_without_date(df, cols) ==
    LET Keep(r) == \A c \in cols \ {"date"} : ~isnull(r[c])
    IN  Table(df.columns, df.dtypes, SelectSeq(df.rows, Keep))

\* df.dropna(subset=cols)
dropna(df, cols) ==
    LET Keep(r) == \A c \in cols : ~isnull(r[c])
    IN  Table(df.columns, df.dtypes, SelectSeq(df.rows, Keep))

\* df[col] = df[col].str.strip(): the .str accessor exists on object columns only
str_strip(df, col) ==
    IF df.dtypes[col] # "object" THEN Raise("AttributeError")
    ELSE LET F(r) == strip(r[col]) IN SetColumn(df, col, "object", F)

\* the body of clean_data on the table raw: the cleaned table, or the exception
clean(raw) ==
    LET ToDate(r) == to_datetime(r["date"])
        d1 == SetColumn(raw, "date", "datetime", ToDate)
        Year(r) == dt_year(r["date"])
        d2 == SetColumn(d1, "year", dt_dtype(d1, "date"), Year)
        Month(r) == dt_month(r["date"])
        d3 == SetColumn(d2, "month", dt_dtype(d2, "date"), Month)
        ToNum(r) == to_numeric(r["value"])
        d4 == SetColumn(d3, "value", to_numeric_dtype(d3, "value"), ToNum)
        d5 == dropna(d4, {"country", "date", "value"})
        d6 == str_strip(d5, "country")
    IN  IF d6.t = "error" THEN d6 ELSE str_strip(d6, "sector")

(***************************************************************************)
(* Grouped sums and sorts, as pandas computes them.                        *)
(***************************************************************************)
\* the order of two cells of one column: strings as text, numbers by value
CellLess(a, b) == IF a.t = "str" THEN SeqLess(a.s, b.s) ELSE Less(a, b)

RECURSIVE KeyLess(_, _)
KeyLess(a, b) ==
    IF a = <<>> THEN FALSE
    ELSE IF Head(a) # Head(b) THEN CellLess(Head(a), Head(b))
    ELSE KeyLess(Tail(a), Tail(b))

KeyOf(r, keys) == [i \in DOMAIN keys |-> r[keys[i]]]

HasKey(r, keys) == \A i \in DOMAIN keys : ~isnull(r[keys[i]])

RECURSIVE SortKeys(_)
SortKeys(S) ==
    IF S = {} THEN <<>>
    ELSE LET m == CHOOSE x \in S : \A y \in S \ {x} : KeyLess(x, y)
         IN  <<m>> \o SortKeys(S \ {m})

\* Series.sum(): NaN is skipped, the sum of nothing is 0
RECURSIVE SumValue(_, _)
SumValue(rows, col) ==
    IF rows = <<>> THEN Num(0)
    ELSE IF isnull(Head(rows)[col]) THEN SumValue(Tail(rows), col)
    ELSE Add(Head(rows)[col], SumValue(Tail(rows), col))

\* df.groupby(keys)[col].sum().reset_index(): one row per key that occurs, rows
\* with a NaN key left out, in ascending key order
groupby_sum(rows, keys, col) ==
    LET K == SortKeys({KeyOf(rows[i], keys) : i \in {j \in DOMAIN rows : HasKey(rows[j], keys)}})
        Group(k) == LET In(r) == HasKey(r, keys) /\ KeyOf(r, keys) = k
                    IN  SelectSeq(rows, In)
    IN  [i \in DOMAIN K |->
            [c \in Range(keys) \cup {col} |->
                IF c = col THEN SumValue(Group(K[i]), col)
                ELSE K[i][CHOOSE j \in DOMAIN keys : keys[j] = c]]]

\* s[:n]
head(s, n) ==
    IF n >= 0 THEN SubSeq(s, 1, IF n < Len(s) THEN n ELSE Len(s))
    ELSE SubSeq(s, 1, IF Len(s) + n > 0 THEN Len(s) + n ELSE 0)

Perms(s) ==
    {[i \in DOMAIN s |-> s[p[i]]] :
        p \in {q \in [DOMAIN s -> DOMAIN s] : \A i, j \in DOMAIN s : i # j => q[i] # q[j]}}

\* before(a, b): a may not come after b in a descending sort, NaN last
DescOrdered(a, b) ==
    IF isnull(b) THEN TRUE
    ELSE IF isnull(a) THEN FALSE
    ELSE ~Less(a, b)

\* a sort in ascending order
sort_values_asc(rows, col) ==
    {s \in Perms(rows) :
        \A i, j \in DOMAIN s : i < j => DescOrdered(s[j][col], s[i][col])}

\* sort_values(col, ascending=False): every order the sort can return; the order of
\* rows with equal values is left to the sort
sort_values_desc(rows, col) ==
    {s \in Perms(rows) :
        \A i, j \in DOMAIN s : i < j => DescOrdered(s[i][col], s[j][col])}

\* rename one column of every row
rename(rows, old, new) ==
    [i \in DOMAIN rows |->
        [c \in (DOMAIN rows[i] \ {old}) \cup {new} |->
            IF c = new THEN rows[i][old] ELSE rows[i][c]]]

\* a Python list, as the dashboard's dropdowns give it (membership is all that is used)
List(v) == [t |-> "list", v |-> v]

truthy(x) ==
    /\ x.t # "None"
    /\ ~(x.t = "num" /\ x.n = 0)
    /\ ~(x.t = "str" /\ x.s = <<>>)
    /\ ~(x.t = "list" /\ x.v = {})

(***************************************************************************)
(* get_top_emitters, get_sectoral_breakdown, calculate_growth_rates.        *)
(***************************************************************************)
\* every table get_top_emitters(n, by_year) can return on the cleaned rows
get_top_emitters(rows, n, by_year) ==
    LET InYear(r) == r["year"] = by_year
        df == IF truthy(by_year) THEN SelectSeq(rows, InYear) ELSE rows
        sums == groupby_sum(df, <<"country">>, "value")
    IN  {rename(head(s, n), "value", "total_emissions") : s \in sort_values_desc(sums, "value")}

get_sectoral_breakdown(rows, country) ==
    LET InCountry(r) == r["country"] = country
        df == IF truthy(country) THEN SelectSeq(rows, InCountry) ELSE rows
        sums == groupby_sum(df, <<"sector">>, "value")
    IN  {rename(s, "value", "total_emissions") : s \in sort_values_desc(sums, "value")}

\* groupby('country')[col].shift(1): the value of the row before, within the country
shift1(yearly, i, col) ==
    IF i > 1 /\ yearly[i - 1]["country"] = yearly[i]["country"]
    THEN yearly[i - 1][col] ELSE NULL

\* (value - prev) / prev * 100
growth_rate(value, prev) == Mul(Div(Sub(value, prev), prev), Num(100))

\* yearly totals per (country, year), sorted by (country, year), with the shifted
\* total under the column name prevcol and the growth rate
growth_table(rows, prevcol) ==
    LET yearly == groupby_sum(rows, <<"country", "year">>, "value")
    IN  [i \in DOMAIN yearly |->
            [c \in {"country", "year", "value", prevcol, "growth_rate"} |->
                IF c = prevcol THEN shift1(yearly, i, "value")
                ELSE IF c = "growth_rate"
                     THEN growth_rate(yearly[i]["value"], shift1(yearly, i, "value"))
                ELSE yearly[i][c]]]

calculate_growth_rates(rows) == growth_table(rows, "prev_year_emissions")

(***************************************************************************)
(* add_derived_metrics.                                                    *)
(***************************************************************************)
\* the rows of left.merge(right, on=on, how='left') for the left rows ls: every left
\* row once per matching right row, in left order, or once with NaN when none matches
RECURSIVE MergeRows(_, _, _, _, _)
MergeRows(ls, rrows, on, newcols, names) ==
    IF ls = <<>> THEN <<>>
    ELSE LET l == Head(ls)
             Match(r) == KeyOf(r, on) = KeyOf(l, on)
             ms == SelectSeq(rrows, Match)
             Joined(r) ==
                 [c \in newcols |->
                     IF names[c].side = "left" THEN l[names[c].col]
                     ELSE IF r.t = "None" THEN NULL ELSE r.row[names[c].col]]
             out == IF ms = <<>> THEN <<Joined(None)>>
                    ELSE [i \in DOMAIN ms |-> Joined([t |-> "row", row |-> ms[i]])]
         IN  out \o MergeRows(Tail(ls), rrows, on, newcols, names)

\* the dtype of a merged column: an integer column that got a NaN is float64
MergedDtype(dtype, rows, c) ==
    IF dtype \in {"int64", "int32"} /\ (\E i \in DOMAIN rows : isnull(rows[i][c]))
    THEN "float64" ELSE dtype

\* left.merge(right, on=on, how='left'): a column name on both sides that is not a
\* key gets the suffixes _x and _y; suffixes that duplicate a column are refused
merge(left, right, on) ==
    LET overlap == (Range(left.columns) \cap Range(right.columns)) \ Range(on)
        LName(c) == IF c \in overlap THEN c \o "_x" ELSE c
        RName(c) == IF c \in overlap THEN c \o "_y" ELSE c
        NotKey(c) == c \notin Range(on)
        rnew == SelectSeq(right.columns, NotKey)
        columns == [i \in DOMAIN left.columns |-> LName(left.columns[i])]
                       \o [i \in DOMAIN rnew |-> RName(rnew[i])]
        names == [c \in Range(columns) |->
                    IF \E lc \in Range(left.columns) : LName(lc) = c
                    THEN [side |-> "left", col |-> CHOOSE lc \in Range(left.columns) : LName(lc) = c]
                    ELSE [side |-> "right", col |-> CHOOSE rc \in Range(rnew) : RName(rc) = c]]
        rows == MergeRows(left.rows, right.rows, on, Range(columns), names)
    IN  IF Cardinality(Range(columns)) < Len(columns) THEN Raise("MergeError")
        ELSE Table(columns,
                   [c \in Range(columns) |->
                       IF names[c].side = "left" THEN left.dtypes[names[c].col]
                       ELSE MergedDtype(right.dtypes[names[c].col], rows, c)],
                   rows)

\* df[new] = df[numer] / df[denom]
ratio(df, new, numer, denom) ==
    IF df.t = "error" THEN df
    ELSE IF ~({numer, denom} \subseteq Range(df.columns)) THEN Raise("KeyError")
    ELSE LET F(r) == Div(r[numer], r[denom]) IN SetColumn(df, new, "float64", F)

\* the body of add_derived_metrics on the processed table: the new table, or the exception
add_derived_metrics(processed, population_data, gdp_data) ==
    LET on == <<"country", "year">>
        yearly_totals ==
            Table(<<"country", "year", "total_emissions">>,
                  [c \in {"country", "year", "total_emissions"} |->
                      processed.dtypes[IF c = "total_emissions" THEN "value" ELSE c]],
                  rename(groupby_sum(processed.rows, on, "value"), "value", "total_emissions"))
        d1 == merge(processed, yearly_totals, on)
        d2 == IF d1.t = "error" \/ population_data.t = "None" THEN d1
              ELSE ratio(merge(d1, population_data, on),
                         "emissions_per_capita", "total_emissions", "population")
    IN  IF d2.t = "error" \/ gdp_data.t = "None" THEN d2
        ELSE ratio(merge(d2, gdp_data, on), "emission_intensity", "total_emissions", "gdp")

(***************************************************************************)
(* save_processed_data, explore_data.                                      *)
(***************************************************************************)
\* one field of DataFrame.to_csv: NaN is the empty field, a date is year-month-day,
\* a float is written in decimal notation (2020.0) and an integer in digits
to_csv_field(c, dtype) ==
    IF c.t = "str" THEN c.s
    ELSE IF c.t = "date" THEN <<D(c.year), W("-"), D(c.month), W("-"), D(c.day)>>
    ELSE IF c.t = "num" THEN (IF dtype = "float64" THEN <<Dec(c.n, c.d)>> ELSE <<D(c.n)>>)
    ELSE IF c.t = "inf" THEN <<W(IF c.sign = 1 THEN "inf" ELSE "-inf")>>
    ELSE <<>>

to_csv(df) ==
    [t |-> "csv", header |-> df.columns,
     lines |-> [i \in DOMAIN df.rows |-> [c \in Range(df.columns) |->
                                            to_csv_field(df.rows[i][c], df.dtypes[c])]]]

\* Series.nunique(): the number of distinct values that are not NaN
nunique(df, col) == Cardinality({df.rows[i][col] : i \in DOMAIN df.rows} \ {NULL})

\* the dictionary explore_data returns (shape, columns, missing values, unique counts)
explore(raw) ==
    [shape |-> <<Len(raw.rows), Len(raw.columns)>>,
     columns |-> raw.columns,
     missing_values |-> [c \in Range(raw.columns) |->
                            Cardinality({i \in DOMAIN raw.rows : isnull(raw.rows[i][c])})],
     unique_countries |-> IF "country" \in Range(raw.columns) THEN nunique(raw, "country") ELSE 0,
     unique_sectors |-> IF "sector" \in Range(raw.columns) THEN nunique(raw, "sector") ELSE 0]

(***************************************************************************)
(* The chart builder's aggregations (the table each chart is drawn from).  *)
(***************************************************************************)
\* a trend grouped by year and country, as the country trends are
create_global_trend_by_country(rows) ==
    LET g == groupby_sum(rows, <<"year", "country">>, "value")
    IN  [i \in DOMAIN g |-> [year |-> g[i]["year"], emissions |-> g[i]["value"]]]

create_global_trend(rows) == rename(groupby_sum(rows, <<"year">>, "value"), "value", "emissions")

create_top_emitters_bar(rows, n, year) ==
    LET InYear(r) == r["year"] = year
        df == IF truthy(year) THEN SelectSeq(rows, InYear) ELSE rows
        sums == groupby_sum(df, <<"country">>, "value")
    IN  {rename(head(s, n), "value", "emissions") : s \in sort_values_desc(sums, "value")}

\* Series.max(): NaN when there is nothing to take the maximum of
max_year(rows) ==
    LET ys == {rows[i]["year"] : i \in DOMAIN rows} \ {NULL}
    IN  IF ys = {} THEN NULL ELSE CHOOSE y \in ys : \A z \in ys : ~Less(y, z)

\* a >= b as pandas compares a column with a scalar: False when either is NaN
GreaterEq(a, b) == ~isnull(a) /\ ~isnull(b) /\ ~Less(a, b)

\* a mean that counts NaN as zero
mean_nan_as_zero(rows, col) ==
    IF rows = <<>> THEN NULL ELSE Div(SumValue(rows, col), Num(Len(rows)))

\* Series.mean(): the mean of the values that are not NaN, NaN when there is none
mean(rows, col) ==
    LET NotNull(r) == ~isnull(r[col])
        xs == SelectSeq(rows, NotNull)
    IN  IF xs = <<>> THEN NULL ELSE Div(SumValue(xs, col), Num(Len(xs)))

\* groupby('country')[col].mean().reset_index()
groupby_mean(rows, col) ==
    LET K == SortKeys({<<rows[i]["country"]>> : i \in {j \in DOMAIN rows : ~isnull(rows[j]["country"])}})
        Group(k) == LET In(r) == r["country"] = k[1] IN SelectSeq(rows, In)
    IN  [i \in DOMAIN K |-> [c \in {"country", col} |->
            IF c = col THEN mean(Group(K[i]), col) ELSE K[i][1]]]

\* the window of the growth chart: the rows of yearly with year >= max year - 5
recent_rows(yearly) ==
    LET recent_years == Sub(max_year(yearly), Num(5))
        Recent(r) == GreaterEq(r["year"], recent_years)
    IN  SelectSeq(yearly, Recent)

create_growth_rate_chart(rows, n) ==
    LET yearly == growth_table(rows, "prev_emissions")
        avg_growth == groupby_mean(recent_rows(yearly), "growth_rate")
    IN  {head(s, n) : s \in sort_values_desc(avg_growth, "growth_rate")}

\* a pivot that fills the cells without data with 0
pivot_fill_zero(data) ==
    LET index == SortKeys({<<data[i]["country"]>> : i \in DOMAIN data})
        columns == SortKeys({<<data[i]["year"]>> : i \in DOMAIN data})
        At(c, y) == {i \in DOMAIN data : data[i]["country"] = c /\ data[i]["year"] = y}
        Cell(c, y) == IF At(c, y) = {} THEN Num(0) ELSE data[CHOOSE i \in At(c, y) : TRUE]["value"]
    IN  [index |-> [i \in DOMAIN index |-> index[i][1]],
         columns |-> [j \in DOMAIN columns |-> columns[j][1]],
         z |-> [i \in DOMAIN index |-> [j \in DOMAIN columns |-> Cell(index[i][1], columns[j][1])]]]

\* data.pivot(index='country', columns='year', values='value'): the countries and the
\* years that occur, in ascending order, and the cells, NaN where data has no row
pivot(data) ==
    LET index == SortKeys({<<data[i]["country"]>> : i \in DOMAIN data})
        columns == SortKeys({<<data[i]["year"]>> : i \in DOMAIN data})
        At(c, y) == {i \in DOMAIN data : data[i]["country"] = c /\ data[i]["year"] = y}
        Cell(c, y) == IF At(c, y) = {} THEN NULL ELSE data[CHOOSE i \in At(c, y) : TRUE]["value"]
    IN  [index |-> [i \in DOMAIN index |-> index[i][1]],
         columns |-> [j \in DOMAIN columns |-> columns[j][1]],
         z |-> [i \in DOMAIN index |-> [j \in DOMAIN columns |-> Cell(index[i][1], columns[j][1])]]]

\* the matrix of the heatmap for the countries given and the last n_years years
create_heatmap(rows, countries, n_years) ==
    LET IsIn(r) == r["country"] \in countries
        df == SelectSeq(rows, IsIn)
        min_year == Add(Sub(max_year(df), Num(n_years)), Num(1))
        Recent(r) == GreaterEq(r["year"], min_year)
    IN  pivot(groupby_sum(SelectSeq(df, Recent), <<"country", "year">>, "value"))

\* df[df['country'].isin(countries)]: NaN is in no list
isin(rows, col, values) ==
    LET IsIn(r) == r[col] \in values IN SelectSeq(rows, IsIn)

create_country_trends(rows, countries) ==
    groupby_sum(isin(rows, "country", countries), <<"year", "country">>, "value")

create_sectoral_breakdown(rows, country) ==
    LET InCountry(r) == r["country"] = country
        df == IF truthy(country) THEN SelectSeq(rows, InCountry) ELSE rows
        sums == groupby_sum(df, <<"sector">>, "value")
    IN  {rename(s, "value", "emissions") : s \in sort_values_desc(sums, "value")}

create_sectoral_trend(rows) == groupby_sum(rows, <<"year", "sector">>, "value")

create_animated_map(rows) ==
    rename(groupby_sum(rows, <<"country", "year">>, "value"), "value", "emissions")

create_pie_chart(rows, countries, year) ==
    LET InYear(r) == r["year"] = year
        df == IF truthy(year) THEN SelectSeq(rows, InYear) ELSE rows
    IN  groupby_sum(isin(df, "country", countries), <<"country">>, "value")

\* the table of the comparison chart; a metric other than 'total' and 'average'
\* leaves the local variable data unbound
create_comparison_chart(rows, countries, metric) ==
    LET df == isin(rows, "country", countries)
    IN  IF metric = "total" THEN Ok(groupby_sum(df, <<"country">>, "value"))
        ELSE IF metric = "average" THEN Ok(groupby_mean(df, "value"))
        ELSE Raise("UnboundLocalError")

(***************************************************************************)
(* Objects.  A method works on names bound to table objects.  env maps a   *)
(* name to an object and heap maps an object to what it holds: the table   *)
(* of an object the caller can see, or Temp for a table the method made    *)
(* itself (what such a table holds is computed by the operators above).    *)
(* A statement either binds a name to a new object (copy(), a selection    *)
(* df[mask], groupby(...).sum().reset_index(), sort_values, head, pivot:   *)
(* pandas returns a new table from each), binds a name to an object that   *)
(* exists, or writes into the object a name is bound to.  The plotting     *)
(* calls (px.bar, px.line, go.Figure) only read the table they are given.  *)
(***************************************************************************)
Temp == [t |-> "temp"]

\* dst = <a new table made from src>
New(dst, src) == [k |-> "new", dst |-> dst, src |-> src]

\* dst = src: another name for the same object
Bind(dst, src) == [k |-> "bind", dst |-> dst, src |-> src]

\* obj[col] = <values>: a column written into the object
SetItem(obj, col) == [k |-> "setitem", obj |-> obj, col |-> col]

\* obj.columns = names: the columns renamed in the object
SetColumns(obj, names) == [k |-> "columns", obj |-> obj, names |-> names]

\* what a write does to a table the caller can see: the column is there afterwards,
\* holding the values assigned (NaN stands for them); a Temp stays a Temp
WriteItem(x, col) ==
    IF x.t # "table" THEN x
    ELSE LET F(r) == NULL IN SetColumn(x, col, "float64", F)

WriteColumns(x, names) ==
    IF x.t # "table" \/ Len(names) # Len(x.columns) THEN x
    ELSE LET Old(c) == x.columns[CHOOSE i \in DOMAIN names : names[i] = c]
         IN  Table(names,
                   [c \in Range(names) |-> x.dtypes[Old(c)]],
                   [i \in DOMAIN x.rows |-> [c \in Range(names) |-> x.rows[i][Old(c)]]])

\* the objects after the statements of body, run in order
RECURSIVE Exec(_, _, _)
Exec(body, env, heap) ==
    IF body = <<>> THEN [env |-> env, heap |-> heap]
    ELSE LET st == Head(body)
             next ==
                 CASE st.k = "new" ->
                        [env |-> (st.dst :> (Len(heap) + 1)) @@ env, heap |-> Append(heap, Temp)]
                   [] st.k = "bind" ->
                        [env |-> (st.dst :> env[st.src]) @@ env, heap |-> heap]
                   [] st.k = "setitem" ->
                        [env |-> env,
                         heap |-> [heap EXCEPT ![env[st.obj]] = WriteItem(@, st.col)]]
                   [] st.k = "columns" ->
                        [env |-> env,
                         heap |-> [heap EXCEPT ![env[st.obj]] = WriteColumns(@, st.names)]]
         IN  Exec(Tail(body), next.env, next.heap)

\* the statements of a branch that is taken or not
When(cond, body) == IF cond THEN body ELSE <<>>

\* CO2Visualizer.__init__(data): self.data = data
init_statements == <<Bind("self.data", "data")>>

create_top_emitters_bar_statements(n, year) ==
    <<New("df", "self.data")>>
        \o When(truthy(year), <<New("df", "df")>>)
        \o <<New("top_emitters", "df"), SetColumns("top_emitters", <<"country", "emissions">>)>>

create_global_trend_statements ==
    <<New("trend", "self.data"), SetColumns("trend", <<"year", "emissions">>)>>

create_country_trends_statements ==
    <<New("df_filtered", "self.data"), New("trend", "df_filtered")>>

create_sectoral_breakdown_statements(country) ==
    <<New("df", "self.data")>>
        \o When(truthy(country), <<New("df", "df")>>)
        \o <<New("sectoral", "df"), SetColumns("sectoral", <<"sector", "emissions">>)>>

create_sectoral_trend_statements == <<New("trend", "self.data")>>

create_animated_map_statements ==
    <<New("yearly", "self.data"), SetColumns("yearly", <<"country", "year", "emissions">>)>>

\* a growth chart that takes self.data itself for its table of yearly totals
create_growth_rate_chart_on_self_data ==
    <<Bind("yearly", "self.data"),
      SetItem("yearly", "prev_emissions"), SetItem("yearly", "growth_rate"),
      New("recent", "yearly"), New("avg_growth", "recent"), New("avg_growth", "avg_growth")>>

create_growth_rate_chart_statements ==
    <<New("yearly", "self.data"), New("yearly", "yearly"),
      SetItem("yearly", "prev_emissions"), SetItem("yearly", "growth_rate"),
      New("recent", "yearly"), New("avg_growth", "recent"), New("avg_growth", "avg_growth")>>

create_pie_chart_statements(year) ==
    <<New("df", "self.data")>>
        \o When(truthy(year), <<New("df", "df")>>)
        \o <<New("df_filtered", "df"), New("emissions", "df_filtered")>>

create_comparison_chart_statements(metric) ==
    <<New("df", "self.data")>> \o When(metric \in {"total", "average"}, <<New("data", "df")>>)

create_heatmap_statements ==
    <<New("df", "self.data"), New("df", "df"), New("heatmap_data", "df"),
      New("heatmap_pivot", "heatmap_data")>>

\* the statements of the chart operation op called with args
statements(op, args) ==
    CASE op = "create_top_emitters_bar" -> create_top_emitters_bar_statements(args[1], args[2])
      [] op = "create_global_trend" -> create_global_trend_statements
      [] op = "create_country_trends" -> create_country_trends_statements
      [] op = "create_sectoral_breakdown" -> create_sectoral_breakdown_statements(args[1])
      [] op = "create_sectoral_trend" -> create_sectoral_trend_statements
      [] op = "create_animated_map" -> create_animated_map_statements
      [] op = "create_growth_rate_chart" -> create_growth_rate_chart_statements
      [] op = "create_pie_chart" -> create_pie_chart_statements(args[2])
      [] op = "create_comparison_chart" -> create_comparison_chart_statements(args[2])
      [] op = "create_heatmap" -> create_heatmap_statements

\* the table the object self.data holds when the chart operation op returns
data_after(op, args, data) ==
    Exec(statements(op, args), "self.data" :> 1, <<data>>).heap[1]

(***************************************************************************)
(* The dashboard: the module's start and the filter callback.              *)
(***************************************************************************)
\* n=15 of the top emitters and growth rate charts of the callback
CallbackN == 15

\* head(10) of the default countries
DefaultCountries == 10

\* pd.to_datetime(text) without a format, of one cell: year-month-day
to_datetime_infer(c) ==
    IF c.t = "date" \/ isnull(c) THEN c
    ELSE IF /\ c.t = "str" /\ Len(c.s) = 5
            /\ c.s[2] = W("-") /\ c.s[4] = W("-")
            /\ \A i \in {1, 3, 5} : "digits" \in DOMAIN c.s[i]
            /\ c.s[1].digits \in 1678..2261
            /\ c.s[3].digits \in 1..12
            /\ c.s[5].digits \in 1..DaysIn(c.s[3].digits, c.s[1].digits)
         THEN Date(c.s[5].digits, c.s[3].digits, c.s[1].digits)
    ELSE Raise("ValueError")

\* sorted(df[col].unique()): Python cannot order a str and a float (NaN)
sorted_unique(df, col) ==
    LET u == {df.rows[i][col] : i \in DOMAIN df.rows}
    IN  IF (\E x \in u : x.t = "str") /\ (\E x \in u : x.t # "str") THEN Raise("TypeError")
        ELSE Ok(u)

\* the table the module loads from the processed file, or the exception
load_df(f) ==
    LET df == read_csv(f)
        ToDate(r) == to_datetime_infer(r["date"])
    IN  IF df.t = "error" THEN df
        ELSE IF "date" \notin Range(df.columns) THEN Raise("KeyError")
        ELSE IF \E i \in DOMAIN df.rows : ToDate(df.rows[i]).t = "error" THEN Raise("ValueError")
        ELSE SetColumn(df, "date", "datetime", ToDate)

\* the module's start: every value the globals (df, top_10_countries) can take,
\* or the exception that ends the start
app(f) ==
    LET df == load_df(f)
        countries == sorted_unique(df, "country")
        sectors == sorted_unique(df, "sector")
        sums == groupby_sum(df.rows, <<"country">>, "value")
        Top(s) == {head(s, DefaultCountries)[i]["country"] : i \in DOMAIN head(s, DefaultCountries)}
    IN  IF df.t = "error" THEN {df}
        ELSE IF countries.t = "error" THEN {countries}
        ELSE IF sectors.t = "error" THEN {sectors}
        ELSE IF df.rows = <<>> THEN {Raise("ValueError")}
        ELSE {[t |-> "app", df |-> df, top_10_countries |-> List(Top(s))] :
                 s \in sort_values_desc(sums, "value")}

\* filtered_df of the callback
filtered_df(df, selected_countries, selected_sectors, year_range) ==
    LET f1 == IF truthy(selected_countries) THEN isin(df.rows, "country", selected_countries.v)
              ELSE df.rows
        f2 == IF truthy(selected_sectors) THEN isin(f1, "sector", selected_sectors.v) ELSE f1
        InRange(r) == /\ GreaterEq(r["year"], Num(year_range[1]))
                      /\ GreaterEq(Num(year_range[2]), r["year"])
    IN  SelectSeq(f2, InRange)

\* every tuple of seven chart tables the callback can return
update_charts(app_, selected_countries, selected_sectors, year_range) ==
    LET rows == filtered_df(app_.df, selected_countries, selected_sectors, year_range)
        shown == IF truthy(selected_countries) THEN selected_countries
                 ELSE app_.top_10_countries
    IN  {[global_trend |-> create_global_trend(rows),
          top_emitters |-> te,
          sectoral |-> sb,
          country_trends |-> create_country_trends(rows, shown.v),
          sectoral_trend |-> create_sectoral_trend(rows),
          growth_rate |-> gr,
          animated_map |-> create_animated_map(rows)] :
            te \in create_top_emitters_bar(rows, CallbackN, Num(year_range[2])),
            sb \in create_sectoral_breakdown(rows, None),
            gr \in create_growth_rate_chart(rows, CallbackN)}

\* the statements of the callback: a copy of df, the selections, a visualizer on
\* the selection and the seven chart operations on it
update_charts_statements(selected_countries, selected_sectors, year_range) ==
    <<New("filtered_df", "df")>>
        \o When(truthy(selected_countries), <<New("filtered_df", "filtered_df")>>)
        \o When(truthy(selected_sectors), <<New("filtered_df", "filtered_df")>>)
        \o <<New("filtered_df", "filtered_df"), Bind("data", "filtered_df")>>
        \o init_statements
        \o create_global_trend_statements
        \o create_top_emitters_bar_statements(Num(CallbackN), Num(year_range[2]))
        \o create_sectoral_breakdown_statements(None)
        \o create_country_trends_statements
        \o create_sectoral_trend_statements
        \o create_growth_rate_chart_statements
        \o create_animated_map_statements

\* the table the module's df holds when the callback returns
df_after(df, selected_countries, selected_sectors, year_range) ==
    Exec(update_charts_statements(selected_countries, selected_sectors, year_range),
         "df" :> 1, <<df>>).heap[1]

(***************************************************************************)
(* Inputs.                                                                 *)
(***************************************************************************)
Line(country, sector, date, value) ==
    [country |-> country, sector |-> sector, date |-> date, value |-> value]

\* the text of a date written day/month/year
DMY(d, m, y) == <<D(d), W("/"), D(m), W("/"), D(y)>>

\* lines of well-formed files: two countries, three years, a missing sector
AggLines ==
    { Line(<<W("A")>>, <<W("Energy")>>, DMY(1, 1, 2020), <<D(100)>>),
      Line(<<W("A")>>, <<W("Energy")>>, DMY(1, 1, 2021), <<D(150)>>),
      Line(<<W("A")>>, <<>>, DMY(1, 1, 2022), <<D(120)>>),
      Line(<<W("B")>>, <<W("Transport")>>, DMY(15, 6, 2020), <<D(50)>>) }

\* lines for the derived metrics: a total of zero followed by a positive one
DeriveLines ==
    { Line(<<W("A")>>, <<W("Energy")>>, DMY(1, 1, 2020), <<D(100)>>),
      Line(<<W("B")>>, <<W("Transport")>>, DMY(15, 6, 2020), <<D(0)>>),
      Line(<<W("B")>>, <<W("Energy")>>, DMY(1, 1, 2021), <<D(50)>>) }

\* lines with the defects clean_data deals with
DirtyLines ==
    { Line(<<W("A")>>, <<W("Energy")>>, DMY(1, 1, 2020), <<D(100)>>),
      Line(<<W(" "), W("A"), W(" ")>>, <<W(" "), W("Energy")>>, DMY(15, 6, 2021), <<D(50)>>),
      Line(<<W("B")>>, <<W("Energy")>>, <<D(2020), W("-"), D(1), W("-"), D(1)>>, <<D(100)>>),
      Line(<<W("B")>>, <<>>, DMY(31, 2, 2020), <<D(100)>>),
      Line(<<W("A")>>, <<W("Energy")>>, DMY(1, 1, 2020), <<W("abc")>>),
      Line(<<W("NA")>>, <<W("Energy")>>, DMY(1, 1, 2020), <<D(100)>>) }

\* lines for the charts: the years of B lie more than five years apart
VizLines ==
    { Line(<<W("A")>>, <<W("Energy")>>, DMY(1, 1, 2020), <<D(100)>>),
      Line(<<W("A")>>, <<W("Energy")>>, DMY(1, 1, 2021), <<D(200)>>),
      Line(<<W("B")>>, <<W("Energy")>>, DMY(1, 1, 2020), <<D(50)>>),
      Line(<<W("B")>>, <<W("Transport")>>, DMY(1, 1, 2013), <<D(100)>>),
      Line(<<W("B")>>, <<W("Transport")>>, DMY(1, 1, 2014), <<D(150)>>) }

\* lines for the dashboard: two countries, two sectors and a missing one, three years
DashboardLines ==
    { Line(<<W("A")>>, <<W("Energy")>>, DMY(1, 1, 2020), <<D(100)>>),
      Line(<<W("B")>>, <<W("Transport")>>, DMY(1, 1, 2021), <<D(50)>>),
      Line(<<W("A")>>, <<>>, DMY(1, 1, 2022), <<D(120)>>) }

\* lines for the processor's life: a good line, and a line clean_data drops
ProcessorLines ==
    { Line(<<W("A")>>, <<W("Energy")>>, DMY(1, 1, 2020), <<D(100)>>),
      Line(<<W("B")>>, <<>>, DMY(31, 2, 2020), <<D(50)>>) }

Csv(lines) == [t |-> "csv", header |-> Header, lines |-> lines]

\* the files at data_path: none or none that can be read as a table, or a header
\* and up to MaxRows lines
Files(Lines) ==
    {[t |-> k] : k \in {"missing", "unreadable", "empty", "ragged"}}
        \cup {Csv(l) : l \in UNION {[1..k -> Lines] : k \in 0..MaxRows}}

Countries == {Str(<<W("A")>>), Str(<<W("B")>>)}

Sectors == {Str(<<W("Energy")>>), Str(<<W("Transport")>>)}

\* what a multi-select dropdown gives: nothing yet (None), or a list
Selections(S) == {None} \cup {List(v) : v \in SUBSET S}

\* positions of the year slider
YearRanges == {<<2020, 2022>>, <<2021, 2022>>, <<2021, 2021>>}

Metrics == {"total", "average", "median"}

Years == {Num(0), Num(2020)}

Side(name, rows) ==
    Table(<<"country", "year", name>>,
          [c \in {"country", "year", name} |->
              IF c = "country" THEN "object"
              ELSE IF c = name /\ (\E i \in DOMAIN rows : isnull(rows[i][3])) THEN "float64"
              ELSE "int64"],
          [i \in DOMAIN rows |->
              [c \in {"country", "year", name} |->
                  IF c = "country" THEN Str(<<W(rows[i][1])>>)
                  ELSE IF c = "year" THEN Num(rows[i][2]) ELSE rows[i][3]]])

\* a population table: a year without emissions, a zero, and no row for the other keys
Population ==
    Side("population", << <<"A", 2019, Num(10)>>, <<"A", 2020, Num(50)>>, <<"B", 2021, Num(0)>> >>)

\* a GDP table: a NaN, a zero, and no row for the other keys
Gdp == Side("gdp", << <<"A", 2020, NULL>>, <<"B", 2021, Num(0)>> >>)

\* a population table with two rows for one (country, year), as a table with one
\* row per region or per revision has
PopulationRepeated ==
    Side("population", << <<"A", 2020, Num(50)>>, <<"A", 2020, Num(25)>> >>)

\* a GDP table with two rows for one (country, year)
GdpRepeated == Side("gdp", << <<"B", 2021, Num(10)>>, <<"B", 2021, Num(10)>> >>)

(***************************************************************************)
(* The state machine.                                                      *)
(***************************************************************************)
Call(op, args, out) == [op |-> op, args |-> args, out |-> out]

Start(Lines) ==
    /\ file \in Files(Lines)
    /\ raw_data = None
    /\ processed_data = None
    /\ derived = 0
    /\ saved = None
    /\ viz_data = None
    /\ dashboard = None
    /\ ret = Call("__init__", <<>>, None)

Init == Start(AggLines)

InitDirty == Start(DirtyLines)

InitDerive == Start(DeriveLines)

InitViz == Start(VizLines)

InitDashboard == Start(DashboardLines)

InitProcessor == Start(ProcessorLines)

\* a prelude that cleans the raw table again although a processed table is there
Prepared_cleans_again ==
    LET raw == IF raw_data.t = "None" THEN read_csv(file) ELSE raw_data
        cleaned == clean(raw)
    IN  IF raw.t = "error"
        THEN [raw |-> raw_data, processed |-> processed_data, exc |-> raw]
        ELSE IF cleaned.t = "error"
        THEN [raw |-> raw, processed |-> processed_data, exc |-> cleaned]
        ELSE [raw |-> raw, processed |-> cleaned, exc |-> None]

\* "if self.raw_data is None: self.load_data()": the raw table, or the exception
Loaded == IF raw_data.t = "None" THEN read_csv(file) ELSE raw_data

\* "if self.processed_data is None: self.clean_data()": the processor's two tables
\* after the prelude of an operation, and the exception the prelude raised, if any
Prepared ==
    LET raw == Loaded
        cleaned == clean(raw)
    IN  IF processed_data.t # "None"
        THEN [raw |-> raw_data, processed |-> processed_data, exc |-> None]
        ELSE IF raw.t = "error"
        THEN [raw |-> raw_data, processed |-> processed_data, exc |-> raw]
        ELSE IF cleaned.t = "error"
        THEN [raw |-> raw, processed |-> processed_data, exc |-> cleaned]
        ELSE [raw |-> raw, processed |-> cleaned, exc |-> None]

\* an operation that starts with the prelude and then returns one of outs(processed)
Query(op, args, Outs(_)) ==
    LET p == Prepared
    IN  /\ raw_data' = p.raw
        /\ processed_data' = p.processed
        /\ IF p.exc.t = "error"
           THEN ret' = Call(op, args, p.exc)
           ELSE \E out \in Outs(p.processed) : ret' = Call(op, args, Ok(out))
        /\ UNCHANGED <<file, derived, saved, viz_data, dashboard>>

load_data ==
    /\ LET df == read_csv(file)
       IN  /\ IF df.t = "error" THEN UNCHANGED raw_data ELSE raw_data' = df
           /\ ret' = Call("load_data", <<>>, df)
    /\ UNCHANGED <<file, processed_data, derived, saved, viz_data, dashboard>>

explore_data ==
    /\ LET raw == Loaded
       IN  IF raw.t = "error"
           THEN UNCHANGED raw_data /\ ret' = Call("explore_data", <<>>, raw)
           ELSE raw_data' = raw /\ ret' = Call("explore_data", <<>>, Ok(explore(raw)))
    /\ UNCHANGED <<file, processed_data, derived, saved, viz_data, dashboard>>

clean_data ==
    /\ LET raw == Loaded
           df == clean(raw)
       IN  IF raw.t = "error"
           THEN UNCHANGED <<raw_data, processed_data>> /\ ret' = Call("clean_data", <<>>, raw)
           ELSE /\ raw_data' = raw
                /\ ret' = Call("clean_data", <<>>, df)
                /\ IF df.t = "error" THEN UNCHANGED processed_data ELSE processed_data' = df
    /\ UNCHANGED <<file, derived, saved, viz_data, dashboard>>

derive_metrics(population_data, gdp_data) ==
    LET p == Prepared
        out == add_derived_metrics(p.processed, population_data, gdp_data)
        args == <<population_data, gdp_data>>
    IN  /\ derived < MaxDerive
        /\ raw_data' = p.raw
        /\ IF p.exc.t = "error"
           THEN /\ ret' = Call("add_derived_metrics", args, p.exc)
                /\ processed_data' = p.processed
                /\ UNCHANGED derived
           ELSE /\ ret' = Call("add_derived_metrics", args, out)
                /\ IF out.t = "error"
                   THEN processed_data' = p.processed /\ UNCHANGED derived
                   ELSE processed_data' = out /\ derived' = derived + 1
        /\ UNCHANGED <<file, saved, viz_data, dashboard>>

growth_rates ==
    LET Outs(p) == {calculate_growth_rates(p.rows)}
    IN  Query("calculate_growth_rates", <<>>, Outs)

top_emitters(n, by_year) ==
    LET Outs(p) == get_top_emitters(p.rows, n, by_year)
    IN  Query("get_top_emitters", <<n, by_year>>, Outs)

sectoral_breakdown(country) ==
    LET Outs(p) == get_sectoral_breakdown(p.rows, country)
    IN  Query("get_sectoral_breakdown", <<country>>, Outs)

save_processed_data ==
    LET p == Prepared
    IN  /\ raw_data' = p.raw
        /\ processed_data' = p.processed
        /\ IF p.exc.t = "error"
           THEN UNCHANGED saved /\ ret' = Call("save_processed_data", <<>>, p.exc)
           ELSE saved' = to_csv(p.processed) /\ ret' = Call("save_processed_data", <<>>, None)
        /\ UNCHANGED <<file, derived, viz_data, dashboard>>

\* CO2Visualizer(processed_data): a visualizer on the processor's cleaned table
CO2Visualizer ==
    /\ processed_data.t = "table"
    /\ viz_data' = processed_data
    /\ ret' = Call("CO2Visualizer", <<>>, None)
    /\ UNCHANGED <<file, raw_data, processed_data, derived, saved, dashboard>>

\* a chart operation: it returns the table the chart shows and leaves self.data as
\* its statements leave the object; the visualizer of the dashboard module was
\* made with df (viz = CO2Visualizer(df)), so self.data and df are one object
Chart(op, args, outs) ==
    /\ viz_data.t = "table"
    /\ \E out \in outs : ret' = Call(op, args, Ok(out))
    /\ viz_data' = data_after(op, args, viz_data)
    /\ dashboard' = IF dashboard.t = "app"
                    THEN [dashboard EXCEPT !.df = data_after(op, args, viz_data)]
                    ELSE dashboard
    /\ UNCHANGED <<file, raw_data, processed_data, derived, saved>>

top_emitters_bar(n, year) ==
    Chart("create_top_emitters_bar", <<n, year>>, create_top_emitters_bar(viz_data.rows, n, year))

global_trend == Chart("create_global_trend", <<>>, {create_global_trend(viz_data.rows)})

growth_rate_chart(n) ==
    Chart("create_growth_rate_chart", <<n>>, create_growth_rate_chart(viz_data.rows, n))

heatmap(countries, n_years) ==
    Chart("create_heatmap", <<countries, n_years>>, {create_heatmap(viz_data.rows, countries, n_years)})

country_trends(countries) ==
    Chart("create_country_trends", <<countries>>, {create_country_trends(viz_data.rows, countries)})

sectoral_chart(country) ==
    Chart("create_sectoral_breakdown", <<country>>, create_sectoral_breakdown(viz_data.rows, country))

sectoral_trend == Chart("create_sectoral_trend", <<>>, {create_sectoral_trend(viz_data.rows)})

animated_map == Chart("create_animated_map", <<>>, {create_animated_map(viz_data.rows)})

pie_chart(countries, year) ==
    Chart("create_pie_chart", <<countries, year>>, {create_pie_chart(viz_data.rows, countries, year)})

comparison_chart(countries, metric) ==
    /\ viz_data.t = "table"
    /\ ret' = Call("create_comparison_chart", <<countries, metric>>,
                   create_comparison_chart(viz_data.rows, countries, metric))
    /\ viz_data' = data_after("create_comparison_chart", <<countries, metric>>, viz_data)
    /\ dashboard' = IF dashboard.t = "app"
                    THEN [dashboard EXCEPT !.df = viz_data']
                    ELSE dashboard
    /\ UNCHANGED <<file, raw_data, processed_data, derived, saved>>

\* the start of the dashboard module on the processed file: df, viz = CO2Visualizer(df)
\* and the default countries; an exception ends the start
start_app ==
    /\ \E a \in app(saved) :
          IF a.t = "error"
          THEN ret' = Call("app", <<>>, a) /\ UNCHANGED <<dashboard, viz_data>>
          ELSE ret' = Call("app", <<>>, None) /\ dashboard' = a /\ viz_data' = a.df
    /\ UNCHANGED <<file, raw_data, processed_data, derived, saved>>

\* a filter-change event: the callback on the module's globals
filter_change(selected_countries, selected_sectors, year_range) ==
    /\ dashboard.t = "app"
    /\ \E out \in update_charts(dashboard, selected_countries, selected_sectors, year_range) :
          ret' = Call("update_charts", <<selected_countries, selected_sectors, year_range>>, Ok(out))
    /\ dashboard' = [dashboard EXCEPT
                        !.df = df_after(@, selected_countries, selected_sectors, year_range)]
    /\ viz_data' = dashboard'.df
    /\ UNCHANGED <<file, raw_data, processed_data, derived, saved>>

\* the processor's queries on the cleaned table
Next ==
    \/ load_data
    \/ explore_data
    \/ clean_data
    \/ growth_rates
    \/ \E n \in 0..MaxN, y \in {None} \cup Years : top_emitters(n, y)
    \/ \E c \in {None} \cup Countries : sectoral_breakdown(c)

\* loading, cleaning and saving
NextClean ==
    \/ load_data
    \/ explore_data
    \/ clean_data
    \/ save_processed_data

\* the processor's derived metrics
NextDerive ==
    \/ load_data
    \/ clean_data
    \/ \E p \in {None, Population, PopulationRepeated}, g \in {None, Gdp, GdpRepeated} :
          derive_metrics(p, g)
    \/ growth_rates

\* the pipeline into the chart builder
NextViz ==
    \/ load_data
    \/ clean_data
    \/ \E n \in 0..MaxN : top_emitters(n, None)
    \/ CO2Visualizer
    \/ \E n \in 0..MaxN, y \in {None} \cup Years : top_emitters_bar(n, y)
    \/ global_trend
    \/ \E n \in 0..MaxN : growth_rate_chart(n)
    \/ \E cs \in SUBSET Countries, n \in 0..MaxN : heatmap(cs, n)

\* the dashboard on the processed file: the module's visualizer and the callback
NextDashboard ==
    \/ save_processed_data
    \/ start_app
    \/ \E c \in Selections(Countries), s \in Selections(Sectors), r \in YearRanges :
          filter_change(c, s, r)
    \/ top_emitters_bar(MaxN, None)
    \/ global_trend
    \/ \E cs \in SUBSET Countries : country_trends(cs)
    \/ \E c \in {None} \cup Countries : sectoral_chart(c)
    \/ sectoral_trend
    \/ animated_map
    \/ growth_rate_chart(MaxN)
    \/ \E y \in {None} \cup Years : pie_chart(Countries, y)
    \/ \E m \in Metrics : comparison_chart(Countries, m)
    \/ heatmap(Countries, MaxN)

\* every operation of the processor, in any order
NextProcessor ==
    \/ load_data
    \/ explore_data
    \/ clean_data
    \/ \E p \in {None, Population} : derive_metrics(p, None)
    \/ growth_rates
    \/ top_emitters(MaxN, None)
    \/ sectoral_breakdown(None)
    \/ save_processed_data

Spec == Init /\ [][Next]_vars

SpecDirty == InitDirty /\ [][NextClean]_vars

SpecDerive == InitDerive /\ [][NextDerive]_vars

SpecViz == InitViz /\ [][NextViz]_vars

SpecProcessor == InitProcessor /\ [][NextProcessor]_vars

SpecDashboard == InitDashboard /\ [][NextDashboard]_vars

(***************************************************************************)
(* Properties.                                                             *)
(***************************************************************************)
\* the sum of f over the finite set S of integers, by itself (no table operator)
RECURSIVE SumOver(_, _)
SumOver(S, f) ==
    IF S = {} THEN Num(0)
    ELSE LET i == CHOOSE j \in S : TRUE IN Add(f[i], SumOver(S \ {i}, f))

Column(rows, col) == [i \in DOMAIN rows |-> rows[i][col]]

\* a line of the input with a country, a date in day/month/year and a numeric value
GoodLine(l) ==
    /\ l.country \notin na_values
    /\ ParsesAsDate(l.date)
    /\ IsNumericText(l.value)

Returned(op) == ret.op = op /\ ret.out.t \in {"ok", "table"}

\* C1: the table clean_data returns is the processed data and holds exactly the
\* input lines that have a country, a date in day/month/year and a numeric value,
\* in order, with that date and that value; no cell of the three columns is null.
C1_CleanDropsInvalidRows ==
    Returned("clean_data") =>
        LET good == SelectSeq(file.lines, GoodLine)
            rows == ret.out.rows
        IN  /\ processed_data = ret.out
            /\ \A i \in DOMAIN rows : \A c \in {"country", "date", "value"} : ~isnull(rows[i][c])
            /\ Len(rows) = Len(good)
            /\ \A i \in DOMAIN rows :
                 /\ rows[i]["value"] = Num(good[i].value[1].digits)
                 /\ rows[i]["date"] =
                        Date(good[i].date[1].digits, good[i].date[3].digits, good[i].date[5].digits)
                 /\ rows[i]["country"] = Str(lstrip(rstrip(good[i].country)))

\* C1 witness: a cleaning that kept a row and dropped two, one for its date
C1_Witness ==
    /\ Returned("clean_data")
    /\ Len(file.lines) = 3
    /\ Len(ret.out.rows) = 1
    /\ \E i \in DOMAIN file.lines :
         ~ParsesAsDate(file.lines[i].date) /\ IsNumericText(file.lines[i].value)

\* C6: clean is idempotent.  Cleaning the table clean_data returned gives a table
\* identical to it: the same columns with the same dtypes and the same rows, none
\* dropped.
C6_CleanIdempotent ==
    Returned("clean_data") => clean(ret.out) = ret.out

\* a year argument that names a year (None and 0 are "no year" to the code)
YearGiven(y) == y.t = "num" /\ y.n # 0

\* C2: get_top_emitters(n, by_year) returns min(n, number of countries) rows, at most
\* n, one per country, in descending order of total_emissions; each total is the sum
\* of value over the country's rows of the cleaned table (of the given year, when a
\* year is given), and no country left out has a larger total than a country listed.
C2_TopEmitters ==
    (Returned("get_top_emitters") /\ ret.args[1] >= 0) =>
        LET n == ret.args[1]
            y == ret.args[2]
            T == processed_data.rows
            out == ret.out.v
            InScope(i) == YearGiven(y) => T[i]["year"] = y
            Total(c) == SumOver({i \in DOMAIN T : T[i]["country"] = c /\ InScope(i)}, Column(T, "value"))
            Cs == {T[i]["country"] : i \in {j \in DOMAIN T : InScope(j)}}
            listed == {out[i]["country"] : i \in DOMAIN out}
        IN  /\ Len(out) <= n
            /\ Len(out) = IF n < Cardinality(Cs) THEN n ELSE Cardinality(Cs)
            /\ \A i, j \in DOMAIN out : i < j =>
                 /\ ~Less(out[i]["total_emissions"], out[j]["total_emissions"])
                 /\ out[i]["country"] # out[j]["country"]
            /\ \A i \in DOMAIN out :
                 /\ out[i]["country"] \in Cs
                 /\ out[i]["total_emissions"] = Total(out[i]["country"])
            /\ \A c \in Cs \ listed : \A i \in DOMAIN out :
                 ~Less(out[i]["total_emissions"], Total(c))

\* C2 witness: the top 1 of two countries of one year, in a table with other years
C2_Witness ==
    /\ Returned("get_top_emitters")
    /\ ret.args = <<1, Num(2020)>>
    /\ Len(ret.out.v) = 1
    /\ ret.out.v[1]["country"] = Str(<<W("A")>>)
    /\ \E i \in DOMAIN processed_data.rows :
         processed_data.rows[i]["country"] = Str(<<W("B")>>) /\ processed_data.rows[i]["year"] = Num(2020)
    /\ \E i \in DOMAIN processed_data.rows : processed_data.rows[i]["year"] # Num(2020)

\* C3 (as claimed): every row of calculate_growth_rates holds the country's total of
\* the year and the growth against the total of the calendar year before, null for
\* the country's first year, whether the country's years are consecutive or not.
C3_GrowthAgainstCalendarYearBefore ==
    Returned("calculate_growth_rates") =>
        LET G == ret.out.v
            T == processed_data.rows
            At(c, y) == {j \in DOMAIN G : G[j]["country"] = c /\ G[j]["year"] = y}
            TotalAt(c, y) == IF At(c, y) = {} THEN NULL ELSE G[CHOOSE j \in At(c, y) : TRUE]["value"]
            First(i) == \A j \in DOMAIN G :
                            G[j]["country"] = G[i]["country"] => ~Less(G[j]["year"], G[i]["year"])
        IN  \A i \in DOMAIN G :
              /\ G[i]["value"] =
                    SumOver({j \in DOMAIN T : T[j]["country"] = G[i]["country"]
                                                /\ T[j]["year"] = G[i]["year"]}, Column(T, "value"))
              /\ G[i]["growth_rate"] =
                    IF First(i) THEN NULL
                    ELSE growth_rate(G[i]["value"], TotalAt(G[i]["country"], Sub(G[i]["year"], Num(1))))

\* C5 (as claimed): the totals of get_sectoral_breakdown(country = c) add up to the
\* total get_top_emitters reports for c, for every country c of the cleaned table.
C5_SectorsAddUpToCountryTotal ==
    (Returned("get_sectoral_breakdown") /\ ret.args[1].t = "str") =>
        LET c == ret.args[1]
            T == processed_data.rows
            out == ret.out.v
            sectors == SumOver(DOMAIN out, Column(out, "total_emissions"))
        IN  \A top \in get_top_emitters(T, Len(T), None) :
              \A i \in DOMAIN top : top[i]["country"] = c => top[i]["total_emissions"] = sectors

IsZero(c) == c.t = "num" /\ c.n = 0

\* C4 (as claimed): a growth rate whose prior total is zero or null is null, and so
\* are emissions_per_capita and emission_intensity when population or gdp is zero or null.
C4_UndefinedDivisionIsNull ==
    /\ Returned("calculate_growth_rates") =>
         \A i \in DOMAIN ret.out.v :
            LET r == ret.out.v[i]
            IN  (isnull(r["prev_year_emissions"]) \/ IsZero(r["prev_year_emissions"]))
                    => isnull(r["growth_rate"])
    /\ Returned("add_derived_metrics") =>
         \A i \in DOMAIN ret.out.rows :
            LET r == ret.out.rows[i]
                Undefined(denom, q) ==
                    ({denom, q} \subseteq DOMAIN r /\ (isnull(r[denom]) \/ IsZero(r[denom])))
                        => isnull(r[q])
            IN  /\ Undefined("population", "emissions_per_capita")
                /\ Undefined("gdp", "emission_intensity")

\* what add_derived_metrics is to do to the table before: the same rows in the same
\* order, every column as it was, and one more column, the total of the row's
\* (country, year)
OnlyAddsTotal(before, after) ==
    /\ Len(after.rows) = Len(before.rows)
    /\ after.columns = Append(before.columns, "total_emissions")
    /\ \A i \in DOMAIN after.rows :
         /\ \A c \in Range(before.columns) : after.rows[i][c] = before.rows[i][c]
         /\ after.rows[i]["total_emissions"] =
               SumOver({j \in DOMAIN before.rows :
                            /\ before.rows[j]["country"] = before.rows[i]["country"]
                            /\ before.rows[j]["year"] = before.rows[i]["year"]},
                       Column(before.rows, "value"))

\* C7 (as claimed): every call of add_derived_metrics without population and GDP,
\* the first and any later one, returns the processed table it found with the column
\* total_emissions added and nothing else changed.
C7_DeriveOnlyAddsTotal ==
    [][(ret'.op = "add_derived_metrics" /\ ret'.args = <<None, None>> /\ Prepared.exc.t # "error")
          => (ret'.out.t = "table" /\ OnlyAddsTotal(Prepared.processed, ret'.out))]_vars

\* the input lines of the scenario: (A, Energy, 01/01/2020, 100),
\* (A, Energy, 01/01/2021, 200), (B, Energy, 01/01/2020, 50)
ScenarioLines ==
    << Line(<<W("A")>>, <<W("Energy")>>, DMY(1, 1, 2020), <<D(100)>>),
       Line(<<W("A")>>, <<W("Energy")>>, DMY(1, 1, 2021), <<D(200)>>),
       Line(<<W("B")>>, <<W("Energy")>>, DMY(1, 1, 2020), <<D(50)>> ) >>

CountryA == Str(<<W("A")>>)

CountryB == Str(<<W("B")>>)

\* C8: from the input file through load and clean, get_top_emitters lists the
\* countries of the valid lines with the sum of their values, largest first, and
\* create_global_trend lists every year of the valid lines once, in ascending order,
\* with the sum of the values of that year; on the scenario the top 2 are (A, 300),
\* (B, 50) and the trend is (2020, 150), (2021, 200).
C8_EndToEnd ==
    LET good == SelectSeq(file.lines, GoodLine)
        CountryOf(i) == Str(lstrip(rstrip(good[i].country)))
        YearOf(i) == Num(good[i].date[5].digits)
        values == [i \in DOMAIN good |-> Num(good[i].value[1].digits)]
        CountryTotal(c) == SumOver({i \in DOMAIN good : CountryOf(i) = c}, values)
        YearTotal(y) == SumOver({i \in DOMAIN good : YearOf(i) = y}, values)
        countries == {CountryOf(i) : i \in DOMAIN good}
        years == {YearOf(i) : i \in DOMAIN good}
        out == ret.out.v
    IN  /\ Returned("get_top_emitters") =>
             /\ Len(out) = IF ret.args[1] < Cardinality(countries) THEN ret.args[1]
                           ELSE Cardinality(countries)
             /\ \A i \in DOMAIN out :
                  /\ out[i]["country"] \in countries
                  /\ out[i]["total_emissions"] = CountryTotal(out[i]["country"])
             /\ \A i, j \in DOMAIN out : i < j =>
                  /\ out[i]["country"] # out[j]["country"]
                  /\ ~Less(out[i]["total_emissions"], out[j]["total_emissions"])
             /\ (file.lines = ScenarioLines /\ ret.args[1] = 2) =>
                  out = << [country |-> CountryA, total_emissions |-> Num(300)],
                           [country |-> CountryB, total_emissions |-> Num(50)] >>
        /\ Returned("create_global_trend") =>
             /\ {out[i]["year"] : i \in DOMAIN out} = years
             /\ \A i, j \in DOMAIN out : i < j => Less(out[i]["year"], out[j]["year"])
             /\ \A i \in DOMAIN out : out[i]["emissions"] = YearTotal(out[i]["year"])
             /\ file.lines = ScenarioLines =>
                  out = << [year |-> Num(2020), emissions |-> Num(150)],
                           [year |-> Num(2021), emissions |-> Num(200)] >>

\* C8 witness: the trend of the scenario, drawn from the cleaned scenario file
C8_Witness ==
    /\ Returned("create_global_trend")
    /\ file.lines = ScenarioLines
    /\ Len(viz_data.rows) = 3
    /\ Len(ret.out.v) = 2

\* C9: the growth chart lists min(n, number of countries in the window) countries, at
\* most n, one row each, by average growth in descending order with the countries
\* without an average last; a country's average is the mean of its growth rates that
\* are not null over the years >= max year - 5 (so the one rate, when there is one),
\* and no country left out has a larger average than a country listed.
C9_GrowthRanking ==
    Returned("create_growth_rate_chart") =>
        LET n == ret.args[1]
            out == ret.out.v
            G == growth_table(viz_data.rows, "prev_emissions")
            rates == Column(G, "growth_rate")
            latest == CHOOSE y \in {G[i]["year"].n : i \in DOMAIN G} :
                          \A i \in DOMAIN G : G[i]["year"].n <= y
            Window(c) == {i \in DOMAIN G : G[i]["country"] = c /\ G[i]["year"].n >= latest - 5}
            Known(c) == {i \in Window(c) : ~isnull(rates[i])}
            Avg(c) == IF Known(c) = {} THEN NULL
                      ELSE Div(SumOver(Known(c), rates), Num(Cardinality(Known(c))))
            Cs == {G[i]["country"] : i \in {j \in DOMAIN G : G[j]["year"].n >= latest - 5}}
            listed == {out[i]["country"] : i \in DOMAIN out}
        IN  /\ Len(out) <= n
            /\ Len(out) = IF n < Cardinality(Cs) THEN n ELSE Cardinality(Cs)
            /\ \A i \in DOMAIN out :
                 /\ out[i]["country"] \in Cs
                 /\ out[i]["growth_rate"] = Avg(out[i]["country"])
                 /\ \A k \in Known(out[i]["country"]) :
                      Known(out[i]["country"]) = {k} => out[i]["growth_rate"] = rates[k]
            /\ \A i, j \in DOMAIN out : i < j =>
                 /\ out[i]["country"] # out[j]["country"]
                 /\ DescOrdered(out[i]["growth_rate"], out[j]["growth_rate"])
            /\ \A c \in Cs \ listed : \A i \in DOMAIN out : DescOrdered(out[i]["growth_rate"], Avg(c))

\* C9 witness: a country ranked by its one growth rate of the window, with an
\* older growth rate and a null one left out of the average
C9_Witness ==
    /\ Returned("create_growth_rate_chart")
    /\ Len(ret.out.v) = 1
    /\ LET G == growth_table(viz_data.rows, "prev_emissions")
       IN  /\ Len(G) = 3
           /\ \A i \in DOMAIN G : G[i]["country"] = CountryB
           /\ G[2]["growth_rate"] = Num(50)
           /\ G[3]["year"] = Num(2020)
           /\ ret.out.v[1]["growth_rate"] = G[3]["growth_rate"]
           /\ ret.out.v[1]["growth_rate"] = Frac(-200, 3)

\* C10: the heatmap matrix has one row per country of the given set that has a row in
\* the window and one column per year of the window in which such a country has a
\* row, the window being max year - n_years + 1 .. max year over the rows of the
\* given countries; a cell is the sum of value over the country's rows of the year
\* and null when there is none; on the scenario with {A, B} and 2 years it is 2 x 2.
C10_Heatmap ==
    Returned("create_heatmap") =>
        LET C == ret.args[1]
            n == ret.args[2]
            out == ret.out.v
            T == viz_data.rows
            InC == {i \in DOMAIN T : T[i]["country"] \in C}
            latest == CHOOSE y \in {T[i]["year"].n : i \in InC} : \A i \in InC : T[i]["year"].n <= y
            InWindow == {i \in InC : T[i]["year"].n >= latest - n + 1}
            At(c, y) == {i \in InWindow : T[i]["country"] = c /\ T[i]["year"] = y}
        IN  /\ {out.index[i] : i \in DOMAIN out.index} = {T[i]["country"] : i \in InWindow}
            /\ {out.columns[j] : j \in DOMAIN out.columns} = {T[i]["year"] : i \in InWindow}
            /\ \A i \in DOMAIN out.index : out.index[i] \in C
            /\ \A j \in DOMAIN out.columns :
                 out.columns[j].n >= latest - n + 1 /\ out.columns[j].n <= latest
            /\ \A i, j \in DOMAIN out.index : i < j => out.index[i] # out.index[j]
            /\ \A i, j \in DOMAIN out.columns : i < j => Less(out.columns[i], out.columns[j])
            /\ DOMAIN out.z = DOMAIN out.index
            /\ \A i \in DOMAIN out.index :
                 /\ DOMAIN out.z[i] = DOMAIN out.columns
                 /\ \A j \in DOMAIN out.columns :
                      out.z[i][j] =
                          IF At(out.index[i], out.columns[j]) = {} THEN NULL
                          ELSE SumOver(At(out.index[i], out.columns[j]), Column(T, "value"))
            /\ (file.lines = ScenarioLines /\ C = {CountryA, CountryB} /\ n = 2) =>
                 /\ out.index = <<CountryA, CountryB>>
                 /\ out.columns = <<Num(2020), Num(2021)>>
                 /\ out.z = << <<Num(100), Num(200)>>, <<Num(50), NULL>> >>

\* C10 witness: the 2 x 2 matrix of the scenario, with its missing cell
C10_Witness ==
    /\ Returned("create_heatmap")
    /\ file.lines = ScenarioLines
    /\ ret.args = <<{CountryA, CountryB}, 2>>
    /\ Len(ret.out.v.index) = 2
    /\ Len(ret.out.v.columns) = 2
    /\ isnull(ret.out.v.z[2][2])

\* the names of the chart operations
ChartOps ==
    {"create_top_emitters_bar", "create_global_trend", "create_country_trends",
     "create_sectoral_breakdown", "create_sectoral_trend", "create_animated_map",
     "create_growth_rate_chart", "create_pie_chart", "create_comparison_chart",
     "create_heatmap"}

\* what the chart operation op with the arguments args returns on a visualizer that
\* was just constructed with the rows given
CalledFirst(op, args, rows) ==
    CASE op = "create_top_emitters_bar" ->
            {Ok(x) : x \in create_top_emitters_bar(rows, args[1], args[2])}
      [] op = "create_global_trend" -> {Ok(create_global_trend(rows))}
      [] op = "create_country_trends" -> {Ok(create_country_trends(rows, args[1]))}
      [] op = "create_sectoral_breakdown" ->
            {Ok(x) : x \in create_sectoral_breakdown(rows, args[1])}
      [] op = "create_sectoral_trend" -> {Ok(create_sectoral_trend(rows))}
      [] op = "create_animated_map" -> {Ok(create_animated_map(rows))}
      [] op = "create_growth_rate_chart" ->
            {Ok(x) : x \in create_growth_rate_chart(rows, args[1])}
      [] op = "create_pie_chart" -> {Ok(create_pie_chart(rows, args[1], args[2]))}
      [] op = "create_comparison_chart" -> {create_comparison_chart(rows, args[1], args[2])}
      [] op = "create_heatmap" -> {Ok(create_heatmap(rows, args[1], args[2]))}

\* C11: no chart operation mutates the table it is given.  Whatever chart operations
\* and filter-change events have happened on the dashboard, in any number and order,
\* the table of the module's visualizer and the dashboard's loaded table are still
\* the table that was loaded from the processed file, and the chart operation that
\* was called last returned what it returns when it is the first call on that table.
C11_ChartsDoNotMutate ==
    dashboard.t = "app" =>
        /\ viz_data = load_df(saved)
        /\ dashboard.df = load_df(saved)
        /\ ret.op \in ChartOps => ret.out \in CalledFirst(ret.op, ret.args, load_df(saved).rows)

\* the growth rate chart, which adds columns to its table of yearly totals, has
\* returned a ranking on the visualizer of a running dashboard with two countries
C11_Witness ==
    /\ dashboard.t = "app"
    /\ ret.op = "create_growth_rate_chart"
    /\ Len(ret.out.v) = 2
    /\ Len(viz_data.rows) = MaxRows

\* the set a selection stands for: nothing selected is the empty set
SelectedSet(x) == IF x.t = "list" THEN x.v ELSE {}

\* the rows of the loaded table with country in C, sector in S and lo <= year <= hi
FilteredSubset(rows, C, S, lo, hi) ==
    LET Keep(r) == /\ r["country"] \in C
                   /\ r["sector"] \in S
                   /\ r["year"].t = "num"
                   /\ lo * r["year"].d <= r["year"].n
                   /\ r["year"].n <= hi * r["year"].d
    IN  SelectSeq(rows, Keep)

\* C12: on every filter-change event with the country set C, the sector set S and
\* the year range [lo, hi], the seven charts are those of exactly the rows of the
\* loaded table with country in C, sector in S and lo <= year <= hi, for every C
\* and S, the empty set included, whatever events came before.
C12_ChartsOfFilteredSubset ==
    ret.op = "update_charts" =>
        LET C == SelectedSet(ret.args[1])
            S == SelectedSet(ret.args[2])
            hi == ret.args[3][2]
            rows == FilteredSubset(load_df(saved).rows, C, S, ret.args[3][1], hi)
            out == ret.out.v
        IN  /\ out.global_trend = create_global_trend(rows)
            /\ out.top_emitters \in create_top_emitters_bar(rows, CallbackN, Num(hi))
            /\ out.sectoral \in create_sectoral_breakdown(rows, None)
            /\ out.country_trends = create_country_trends(rows, C)
            /\ out.sectoral_trend = create_sectoral_trend(rows)
            /\ out.growth_rate \in create_growth_rate_chart(rows, CallbackN)
            /\ out.animated_map = create_animated_map(rows)

\* the rows of the supplied table with the (country, year) of the row r
JoinMatches(side, r) ==
    {k \in DOMAIN side.rows :
        side.rows[k]["country"] = r["country"] /\ side.rows[k]["year"] = r["year"]}

\* the quotient column q of the table after is total_emissions over the column
\* denom of the supplied table where the row's (country, year) is in that table,
\* and null where it is not
JoinedQuotient(after, side, denom, q) ==
    /\ q \in Range(after.columns)
    /\ \A i \in DOMAIN after.rows :
         LET r == after.rows[i]
             ms == JoinMatches(side, r)
         IN  IF ms = {} THEN isnull(r[q])
             ELSE \A k \in ms : r[q] = Div(r["total_emissions"], side.rows[k][denom])

\* C13: add_derived_metrics with a population table or a GDP table supplied does
\* not fail when a row's (country, year) is not in that table: the result has the
\* rows of the cleaned table, none dropped and none repeated, with their total;
\* emissions_per_capita (emission_intensity) is null where the key is absent and
\* total_emissions / population (/ gdp) where it is present.
C13_JoinMissGivesNull ==
    [][(/\ ret'.op = "add_derived_metrics"
        /\ ret'.args # <<None, None>>
        /\ Prepared.exc.t # "error")
          => LET before == Prepared.processed
                 after == ret'.out
                 population_data == ret'.args[1]
                 gdp_data == ret'.args[2]
             IN  /\ after.t = "table"
                 /\ Len(after.rows) = Len(before.rows)
                 /\ \A i \in DOMAIN after.rows :
                      /\ \A c \in Range(before.columns) : after.rows[i][c] = before.rows[i][c]
                      /\ after.rows[i]["total_emissions"] =
                            SumOver({j \in DOMAIN before.rows :
                                        /\ before.rows[j]["country"] = before.rows[i]["country"]
                                        /\ before.rows[j]["year"] = before.rows[i]["year"]},
                                    Column(before.rows, "value"))
                 /\ population_data.t = "table" =>
                        JoinedQuotient(after, population_data, "population", "emissions_per_capita")
                 /\ gdp_data.t = "table" =>
                        JoinedQuotient(after, gdp_data, "gdp", "emission_intensity")]_vars

\* the exceptions of a data source that cannot be read as a table
DataSourceError == {"FileNotFoundError", "PermissionError", "EmptyDataError", "ParserError"}

\* C14: when the path holds no file, a file that cannot be read or a file that
\* cannot be parsed as a table, every operation that loads, load_data itself or an
\* operation that loads because nothing is loaded yet, fails with the data source
\* error, and nothing is kept: raw_data and processed_data stay unset and no file
\* is written.
C14_LoadFailurePropagates ==
    file.t # "csv" =>
        /\ raw_data = None
        /\ processed_data = None
        /\ saved = None
        /\ ret.op # "__init__" => (ret.out.t = "error" /\ ret.out.exc \in DataSourceError)

\* get_top_emitters on a new processor whose file cannot be parsed has raised
C14_Witness ==
    /\ file.t = "ragged"
    /\ ret.op = "get_top_emitters"
    /\ ret.out = Raise("ParserError")
    /\ raw_data = None

\* the operations that compute on the processed table and store nothing but it
QueryOps ==
    {"calculate_growth_rates", "get_top_emitters", "get_sectoral_breakdown",
     "save_processed_data"}

\* what the operation op returned is its result on the rows given
ComputedOn(op, args, out, rows) ==
    CASE op = "calculate_growth_rates" -> out = Ok(calculate_growth_rates(rows))
      [] op = "get_top_emitters" ->
            out \in {Ok(x) : x \in get_top_emitters(rows, args[1], args[2])}
      [] op = "get_sectoral_breakdown" ->
            out \in {Ok(x) : x \in get_sectoral_breakdown(rows, args[1])}
      [] op = "save_processed_data" -> out = None

\* a query on a processor with a processed table leaves both tables as they are
\* and computes on the processed one
QueryKeepsTables ==
    (ret'.op \in QueryOps /\ processed_data.t = "table")
        => /\ raw_data' = raw_data
           /\ processed_data' = processed_data
           /\ ComputedOn(ret'.op, ret'.args, ret'.out, processed_data.rows)

\* an operation that finds no processed table and succeeds has loaded the file if
\* nothing was loaded, cleaned, kept both tables and computed on the cleaned table
PreparesFirst ==
    (/\ ret'.op \in QueryOps \cup {"add_derived_metrics"}
     /\ processed_data.t = "None"
     /\ ret'.out.t # "error")
        => /\ raw_data' = (IF raw_data.t = "table" THEN raw_data ELSE read_csv(file))
           /\ raw_data'.t = "table"
           /\ clean(raw_data').t = "table"
           /\ IF ret'.op \in QueryOps
              THEN /\ processed_data' = clean(raw_data')
                   /\ ComputedOn(ret'.op, ret'.args, ret'.out, clean(raw_data').rows)
              ELSE /\ processed_data' = ret'.out
                   /\ ret'.out = add_derived_metrics(clean(raw_data'), ret'.args[1], ret'.args[2])

\* save_processed_data writes the processed table it leaves behind
SavesProcessed ==
    (ret'.op = "save_processed_data" /\ ret'.out.t # "error") => saved' = to_csv(processed_data')

\* C15: on one processor, whatever operations were called in whatever order, the
\* processed table is set only if the raw table is set; an operation that needs the
\* cleaned table and finds none loads the file if nothing is loaded, cleans, keeps
\* both tables and computes on the cleaned one; calculate_growth_rates,
\* get_top_emitters, get_sectoral_breakdown and save_processed_data leave a raw and
\* a processed table that are set as they are.
C15_ProcessorLifecycle ==
    /\ [](processed_data.t = "table" => raw_data.t = "table")
    /\ [][QueryKeepsTables /\ PreparesFirst /\ SavesProcessed]_vars

\* a query has returned on a processor whose processed table carries the derived
\* total and whose processed file was written before the table was derived
C15_Witness ==
    /\ ret.op = "get_sectoral_breakdown"
    /\ ret.out.t = "ok"
    /\ processed_data.t = "table"
    /\ "total_emissions" \in Range(processed_data.columns)
    /\ saved.t = "csv"
    /\ "total_emissions" \notin Range(saved.header)
====
